---- MODULE Spec2Model ----
(***************************************************************************)
(* The SCST training loop of train_scst.py (RLChatbot) as a state machine. *)
(*                                                                         *)
(* Rewards (BLEU scores, floats in [0,1] in the program) are integers in   *)
(* hundredths, 0..100, so that the skip threshold 0.99 is 99.  A test      *)
(* metric (a mean) is kept as the exact fraction <<sum, count>>.           *)
(* Token ids are strings.  A training or test entry (p1, p2) is identified *)
(* by the number k of its source phrase; Refs(k) is its reference list p2. *)
(* The model parameters of the network are one value of Params.            *)
(*                                                                         *)
(* The scalar series bleu_argmax, bleu_sample, skipped_samples and epoch   *)
(* of lines 180-185 are write-only outputs computed from the per-epoch     *)
(* lists and counters kept below; they are not kept as state.              *)
(***************************************************************************)
EXTENDS Integers, Sequences, FiniteSets

\* ------------------------------------------------------------------ bounds
\* Longest decoded sequence (high_level_cornell.MAX_TOKENS).
MaxTokens == 2
\* Largest --samples value tried.
MaxSamples == 2
\* Number of grouped training phrases in the short specification.
NumTrain == 3
\* Number of grouped test phrases.
NumTest == 2
\* Model parameter states are 0..MaxParam.
MaxParam == 1
\* BATCH_SIZE (16 in the program), scaled down.
BATCH_SIZE == 2
\* MAX_EPOCHES (5000 in the program), scaled down: short and long runs.
EpochesShort == 2
EpochesLong == 12

\* ------------------------------------------------------ program constants
\* argmax_bleu > 0.99, in hundredths.
SKIP_THRESHOLD == 99
\* epoch % 10 == 0
SAVE_EVERY == 10

\* Python's None; a metric a / b is the pair <<a, b>>.
None == <<>>
BEG == "#BEG"
END == "#END"
WORD == "w"

Params == 0..MaxParam

VARIABLES
    args,            \* [samples, disable_skip]: the parsed command line
    max_epoches,     \* the epoch ceiling of the run
    net,             \* the model parameters
    has_grad,        \* whether a backward pass filled the gradients since zero_grad
    opt_steps,       \* number of optimiser.step() calls so far
    train_data,      \* the grouped training set, in its current (shuffled) order
    epoch, batch_idx, best_bleu, dial_shown,
    total_samples, skipped_samples, bleus_argmax, bleus_sample,
    ofs,             \* iterate_batches: number of batches already yielded this epoch
    batch,           \* the current batch
    idx,             \* enumerate(input_batch): 0-based index of the current example
    argmax_bleu,     \* greedy reward of the current example
    k,               \* number of samples already drawn for the current example
    net_policies, net_actions, net_advantages,
    bleu_sum, bleu_count, tpos,   \* run_test: locals and position in test_data
    bleu_test,       \* the value run_test returned this epoch
    tb_tracker,      \* per tag: <<number of track() calls, batch_idx of the last>>
    saves,           \* checkpoint files written: <<kind, epoch>>
    log,             \* per kind of dialogue line: number of lines logged
    test_runs,       \* history: <<parameters, metric>> of every finished run_test
    pc

vars == <<args, max_epoches, net, has_grad, opt_steps, train_data, epoch, batch_idx,
          best_bleu, dial_shown, total_samples, skipped_samples, bleus_argmax,
          bleus_sample, ofs, batch, idx, argmax_bleu, k, net_policies, net_actions,
          net_advantages, bleu_sum, bleu_count, tpos, bleu_test, tb_tracker, saves,
          log, test_runs, pc>>

\* Groups of variables, for UNCHANGED.
v_cfg    == <<args, max_epoches>>
v_model  == <<net, has_grad, opt_steps, tb_tracker>>
v_epoch  == <<total_samples, skipped_samples, bleus_argmax, bleus_sample>>
v_batch  == <<net_policies, net_actions, net_advantages>>
v_test   == <<bleu_sum, bleu_count, tpos>>
v_out    == <<saves, test_runs>>

\* ------------------------------------------------------------ collaborators
Max2(a, b) == IF a >= b THEN a ELSE b
Min2(a, b) == IF a <= b THEN a ELSE b

RECURSIVE SumSeq(_)
SumSeq(s) == IF s = <<>> THEN 0 ELSE Head(s) + SumSeq(Tail(s))

\* A decoded sequence of n tokens: words, closed by the stop token when `stop`.
Traj(n, stop) == [i \in 1..n |-> IF i = n /\ stop THEN END ELSE WORD]

\* Decoding stops at the stop token or after MAX_TOKENS tokens.
Trajectories ==
    {Traj(n, TRUE) : n \in 1..MaxTokens} \cup {Traj(MaxTokens, FALSE)}

\* The reference list of source phrase p1, each reference led by the #BEG marker.
Refs(p1) ==
    IF p1 % 2 = 1 THEN << <<BEG, WORD, END>> >>
    ELSE << <<BEG, WORD, WORD, END>>, <<BEG, WORD, END>> >>

\* Similarity of a candidate and one reference, 0..100.
Similarity(cand, ref) ==
    IF cand = <<>> \/ ref = <<>> THEN 0
    ELSE (100 * Cardinality({i \in 1..Min2(Len(cand), Len(ref)) : cand[i] = ref[i]}))
            \div Max2(Len(cand), Len(ref))

RECURSIVE calc_bleu_many(_, _)
calc_bleu_many(cand, refs) ==
    IF refs = <<>> THEN 0
    ELSE Max2(Similarity(cand, Head(refs)), calc_bleu_many(cand, Tail(refs)))

\* Greedy decoding is a function of the parameters and the source phrase.
decode_chain_argmax(params, p1) ==
    LET c == (params + p1) % (MaxTokens + 1)
    IN  IF c = MaxTokens THEN Traj(MaxTokens, FALSE) ELSE Traj(c + 1, TRUE)

\* Sampled decoding may return any sequence.
decode_chain_sampling(params, p1) == Trajectories

\* ref_indices = [indices[1:] for indices in ...]
StripBegin(refs) == [i \in 1..Len(refs) |-> Tail(refs[i])]

test_data == [i \in 1..NumTest |-> NumTrain + i]

Shuffles(s) ==
    {p \in [1..Len(s) -> {s[i] : i \in 1..Len(s)}] :
        \A i, j \in 1..Len(s) : p[i] = p[j] => i = j}

\* iterate_batches: the slice data[o*size : (o+1)*size]
Slice(data, o, size) ==
    SubSeq(data, o * size + 1, Min2((o + 1) * size, Len(data)))

Tags == {"advantage", "loss_policy", "loss_total"}
Kinds == {"Input", "Refer", "Argmax", "Sample"}

\* --------------------------------------------------------------- initial
InitCommon ==
    /\ net \in Params
    /\ has_grad = FALSE
    /\ opt_steps = 0
    /\ epoch = 0
    /\ batch_idx = 0
    /\ best_bleu = None
    /\ dial_shown = FALSE
    /\ total_samples = 0
    /\ skipped_samples = 0
    /\ bleus_argmax = <<>>
    /\ bleus_sample = <<>>
    /\ ofs = 0
    /\ batch = <<>>
    /\ idx = 0
    /\ argmax_bleu = 0
    /\ k = 0
    /\ net_policies = <<>>
    /\ net_actions = <<>>
    /\ net_advantages = <<>>
    /\ bleu_sum = 0
    /\ bleu_count = 0
    /\ tpos = 1
    /\ bleu_test = None
    /\ tb_tracker = [t \in Tags |-> <<0, 0>>]
    /\ saves = {}
    /\ log = [kd \in Kinds |-> 0]
    /\ test_runs = {}
    /\ pc = "epoch"

Init ==
    /\ args \in [samples : 0..MaxSamples, disable_skip : BOOLEAN]
    /\ max_epoches = EpochesShort
    /\ train_data = [i \in 1..NumTrain |-> i]
    /\ InitCommon

InitLong ==
    /\ args \in [samples : {1}, disable_skip : BOOLEAN]
    /\ max_epoches = EpochesLong
    /\ train_data = <<1>>
    /\ InitCommon

\* ---------------------------------------------------------------- actions
\* Lines 97-105: the head of the epoch loop.
EpochStartBody(argmax0) ==
    /\ pc = "epoch"
    /\ epoch < max_epoches
    /\ train_data' \in Shuffles(train_data)
    /\ dial_shown' = FALSE
    /\ total_samples' = 0
    /\ skipped_samples' = 0
    /\ bleus_argmax' = argmax0
    /\ bleus_sample' = <<>>
    /\ ofs' = 0
    /\ pc' = "batches"
    /\ UNCHANGED <<v_cfg, v_model, epoch, batch_idx, best_bleu, batch, idx,
                   argmax_bleu, k, v_batch, v_test, bleu_test, v_out, log>>

EpochStart_KeepArgmax == EpochStartBody(bleus_argmax)

EpochStart == EpochStartBody(<<>>)

\* Lines 107-116: the next batch of the epoch.
BatchStart ==
    /\ pc = "batches"
    /\ ofs * BATCH_SIZE < Len(train_data)
    /\ batch' = Slice(train_data, ofs, BATCH_SIZE)
    /\ ofs' = ofs + 1
    /\ batch_idx' = batch_idx + 1
    /\ has_grad' = FALSE
    /\ net_policies' = <<>>
    /\ net_actions' = <<>>
    /\ net_advantages' = <<>>
    /\ idx' = 0
    /\ pc' = "example"
    /\ UNCHANGED <<v_cfg, net, opt_steps, tb_tracker, train_data, epoch, best_bleu,
                   dial_shown, v_epoch, argmax_bleu, k, v_test, bleu_test, v_out, log>>

\* Line 132: the skip policy.
ShouldSkip_IgnoreFlag(bleu) == bleu > SKIP_THRESHOLD

ShouldSkip(bleu) == ~args.disable_skip /\ bleu > SKIP_THRESHOLD

\* Lines 118-143: one example up to the skip decision and the dialogue log.
Greedy ==
    /\ pc = "example"
    /\ idx < Len(batch)
    /\ LET p1 == batch[idx + 1]
           ref_indices == StripBegin(Refs(p1))
           actions == decode_chain_argmax(net, p1)
           bleu == calc_bleu_many(actions, ref_indices)
       IN  /\ total_samples' = total_samples + 1
           /\ argmax_bleu' = bleu
           /\ bleus_argmax' = Append(bleus_argmax, bleu)
           /\ IF ShouldSkip(bleu)
              THEN /\ skipped_samples' = skipped_samples + 1
                   /\ idx' = idx + 1
                   /\ pc' = "example"
                   /\ UNCHANGED <<k, log>>
              ELSE /\ log' = IF ~dial_shown
                             THEN [log EXCEPT !["Input"] = @ + 1, !["Refer"] = @ + 1,
                                              !["Argmax"] = @ + 1]
                             ELSE log
                   /\ k' = 0
                   /\ pc' = "sample"
                   /\ UNCHANGED <<skipped_samples, idx>>
    /\ UNCHANGED <<v_cfg, v_model, train_data, epoch, batch_idx, best_bleu, dial_shown,
                   bleus_sample, ofs, batch, v_batch, v_test, bleu_test, v_out>>

\* Line 157: the advantage of one sampled trajectory.
Advantage_Reversed(sample_bleu, greedy_bleu) == greedy_bleu - sample_bleu

Advantage(sample_bleu, greedy_bleu) == sample_bleu - greedy_bleu

\* Line 157: [sample_bleu - argmax_bleu] * len(actions)
Advantages_Once(sample_bleu, greedy_bleu, actions) ==
    <<Advantage(sample_bleu, greedy_bleu)>>

Advantages(sample_bleu, greedy_bleu, actions) ==
    [i \in 1..Len(actions) |-> Advantage(sample_bleu, greedy_bleu)]

\* Line 145: range(args.samples)
SamplesToDraw_OneMore == args.samples + 1

SamplesToDraw == args.samples

\* Lines 145-158: one pass of the sampling loop.  The logits r_sample of a
\* trajectory are kept as the example they were decoded from and their row count.
Sample ==
    /\ pc = "sample"
    /\ k < SamplesToDraw
    /\ LET p1 == batch[idx + 1]
           ref_indices == StripBegin(Refs(p1))
       IN  \E actions \in decode_chain_sampling(net, p1) :
             LET sample_bleu == calc_bleu_many(actions, ref_indices)
             IN  /\ log' = IF ~dial_shown THEN [log EXCEPT !["Sample"] = @ + 1] ELSE log
                 /\ net_policies' = Append(net_policies,
                                           [item |-> idx, rows |-> Len(actions)])
                 /\ net_actions' = net_actions \o actions
                 /\ net_advantages' =
                        net_advantages \o Advantages(sample_bleu, argmax_bleu, actions)
                 /\ bleus_sample' = Append(bleus_sample, sample_bleu)
    /\ k' = k + 1
    /\ UNCHANGED <<v_cfg, v_model, train_data, epoch, batch_idx, best_bleu, dial_shown,
                   total_samples, skipped_samples, bleus_argmax, ofs, batch, idx,
                   argmax_bleu, v_test, bleu_test, v_out, pc>>

\* Line 159: dial_shown = True
ShownAfterExample_Unset == dial_shown

ShownAfterExample == TRUE

\* Line 159 and the return to line 118.
ExampleEnd ==
    /\ pc = "sample"
    /\ k >= SamplesToDraw
    /\ dial_shown' = ShownAfterExample
    /\ idx' = idx + 1
    /\ pc' = "example"
    /\ UNCHANGED <<v_cfg, v_model, train_data, epoch, batch_idx, best_bleu, v_epoch,
                   ofs, batch, argmax_bleu, k, v_batch, v_test, bleu_test, v_out, log>>

\* Line 161: if not net_policies: continue
EmptyPolicies_Never(policies) == FALSE

EmptyPolicies(policies) == policies = <<>>

\* Rows of torch.cat(net_policies).
PolicyRows(policies) == SumSeq([i \in 1..Len(policies) |-> policies[i].rows])

\* Lines 161-177: the empty-policy guard, the loss, the update and the metrics.
\* Indexing log_prob_v by range(len(net_actions)) and weighting by adv_v raise
\* when the three lengths differ.
BatchEnd ==
    /\ pc = "example"
    /\ idx >= Len(batch)
    /\ IF EmptyPolicies(net_policies)
       THEN /\ pc' = "batches"
            /\ UNCHANGED v_model
       ELSE IF PolicyRows(net_policies) = Len(net_actions)
                 /\ Len(net_advantages) = Len(net_actions)
            THEN /\ has_grad' = TRUE
                 /\ net' \in Params
                 /\ opt_steps' = opt_steps + 1
                 /\ tb_tracker' = [t \in Tags |-> <<tb_tracker[t][1] + 1, batch_idx>>]
                 /\ pc' = "batches"
            ELSE /\ pc' = "raised"
                 /\ UNCHANGED v_model
    /\ UNCHANGED <<v_cfg, train_data, epoch, batch_idx, best_bleu, dial_shown, v_epoch,
                   ofs, batch, idx, argmax_bleu, k, v_batch, v_test, bleu_test, v_out,
                   log>>

\* Lines 179, 33-34: all batches are done; run_test is entered.
RunTestBegin ==
    /\ pc = "batches"
    /\ ofs * BATCH_SIZE >= Len(train_data)
    /\ bleu_sum' = 0
    /\ bleu_count' = 0
    /\ tpos' = 1
    /\ pc' = "test"
    /\ UNCHANGED <<v_cfg, v_model, train_data, epoch, batch_idx, best_bleu, dial_shown,
                   v_epoch, ofs, batch, idx, argmax_bleu, k, v_batch, bleu_test, v_out,
                   log>>

\* Lines 36-39: run_test decodes greedily.
TestDecode_Sampling(params, p1) == decode_chain_sampling(params, p1)

TestDecode(params, p1) == {decode_chain_argmax(params, p1)}

\* Lines 35-45: one pair of the test set.
RunTestStep ==
    /\ pc = "test"
    /\ tpos <= Len(test_data)
    /\ LET p1 == test_data[tpos]
           ref_indices == StripBegin(Refs(p1))
       IN  \E tokens \in TestDecode(net, p1) :
             /\ bleu_sum' = bleu_sum + calc_bleu_many(tokens, ref_indices)
             /\ bleu_count' = bleu_count + 1
    /\ tpos' = tpos + 1
    /\ UNCHANGED <<v_cfg, v_model, train_data, epoch, batch_idx, best_bleu, dial_shown,
                   v_epoch, ofs, batch, idx, argmax_bleu, k, v_batch, bleu_test, v_out,
                   log, pc>>

\* Line 46 and the assignment of line 179: bleu_sum / bleu_count.
RunTestReturn ==
    /\ pc = "test"
    /\ tpos > Len(test_data)
    /\ bleu_count > 0
    /\ bleu_test' = <<bleu_sum, bleu_count>>
    /\ test_runs' = test_runs \cup {<<net, bleu_test'>>}
    /\ pc' = "epoch_end"
    /\ UNCHANGED <<v_cfg, v_model, train_data, epoch, batch_idx, best_bleu, dial_shown,
                   v_epoch, ofs, batch, idx, argmax_bleu, k, v_batch, v_test, saves,
                   log>>

\* Comparison of two metrics a / b: a < b.
FracLess(a, b) == a[1] * b[2] < b[1] * a[2]

\* Line 187: the best-score test.
BestImproved_OrEqual(best, test) == best = None \/ ~FracLess(test, best)

BestImproved(best, test) == best = None \/ FracLess(best, test)

\* Line 191: the periodic checkpoint.
Periodic_SkipFirst(e) == e % SAVE_EVERY = 0 /\ e > 0

Periodic(e) == e % SAVE_EVERY = 0

\* Lines 180-192: the end of the epoch.  A checkpoint file is its kind and its
\* epoch, which its file name holds.
EpochEnd ==
    /\ pc = "epoch_end"
    /\ best_bleu' = IF BestImproved(best_bleu, bleu_test) THEN bleu_test ELSE best_bleu
    /\ saves' = saves
                  \cup (IF BestImproved(best_bleu, bleu_test)
                        THEN {<<"bleu", epoch>>} ELSE {})
                  \cup (IF Periodic(epoch) THEN {<<"epoch", epoch>>} ELSE {})
    /\ epoch' = epoch + 1
    /\ pc' = "epoch"
    /\ UNCHANGED <<v_cfg, v_model, train_data, batch_idx, dial_shown, v_epoch, ofs,
                   batch, idx, argmax_bleu, k, v_batch, v_test, bleu_test, test_runs,
                   log>>

\* Lines 97, 194: the epoch ceiling is reached.
Close ==
    /\ pc = "epoch"
    /\ epoch >= max_epoches
    /\ pc' = "done"
    /\ UNCHANGED <<v_cfg, v_model, train_data, epoch, batch_idx, best_bleu, dial_shown,
                   v_epoch, ofs, batch, idx, argmax_bleu, k, v_batch, v_test, bleu_test,
                   v_out, log>>

Next ==
    \/ EpochStart
    \/ BatchStart
    \/ Greedy
    \/ Sample
    \/ ExampleEnd
    \/ BatchEnd
    \/ RunTestBegin
    \/ RunTestStep
    \/ RunTestReturn
    \/ EpochEnd
    \/ Close

Spec == Init /\ [][Next]_vars

SpecLong == InitLong /\ [][Next]_vars

\* ================================================================= claims
\* The skip test of line 132, written out.
IsSkipped(bleu) == ~args.disable_skip /\ bleu > 99

\* A step that starts the processing of the next example of the batch.
StartsExample == pc = "example" /\ total_samples' = total_samples + 1

\* bleus_argmax holds the greedy rewards of this epoch's examples in order; the
\* current batch's first example is entry BatchBase + 1.
BatchBase == (ofs - 1) * BATCH_SIZE

\* C1: an example whose greedy reward is above 0.99 while skipping is enabled adds
\* nothing to net_policies, net_actions, net_advantages and bleus_sample and raises
\* skipped_samples by exactly 1; any other example is not skipped; with skipping
\* disabled skipped_samples stays 0.
C1_SkipContract ==
    /\ [][StartsExample =>
            IF ~args.disable_skip /\ argmax_bleu' > 99
            THEN /\ net_policies' = net_policies
                 /\ net_actions' = net_actions
                 /\ net_advantages' = net_advantages
                 /\ bleus_sample' = bleus_sample
                 /\ skipped_samples' = skipped_samples + 1
                 /\ pc' = "example"
                 /\ idx' = idx + 1
            ELSE /\ skipped_samples' = skipped_samples
                 /\ pc' = "sample"]_vars
    /\ [](args.disable_skip => skipped_samples = 0)

\* An example was skipped right after another example of the same batch was sampled.
C1_Witness ==
    /\ pc = "example"
    /\ ~args.disable_skip
    /\ argmax_bleu > 99
    /\ skipped_samples >= 1
    /\ idx >= 2
    /\ net_policies # <<>>

\* C2: throughout a batch, len(net_actions) is the sum of the lengths of the sampled
\* trajectories recorded so far and len(net_advantages) == len(net_actions), so the
\* loss computation never raises; the accumulators are empty when a batch starts.
C2_AccumulatorLengths ==
    /\ Len(net_actions) = SumSeq([j \in 1..Len(net_policies) |-> net_policies[j].rows])
    /\ Len(net_advantages) = Len(net_actions)
    /\ pc # "raised"
    /\ (pc = "example" /\ idx = 0) =>
          (net_policies = <<>> /\ net_actions = <<>> /\ net_advantages = <<>>)

\* A later batch holds trajectories of different lengths.
C2_Witness ==
    /\ batch_idx >= 2
    /\ Len(net_policies) >= 2
    /\ \E i, j \in 1..Len(net_policies) : net_policies[i].rows # net_policies[j].rows
    /\ Len(net_actions) >= 3

\* The step that ends a batch (lines 161-177).
EndsBatch == pc = "example" /\ idx >= Len(batch) /\ pc' # pc

\* C3: a batch without sampled trajectories runs no backward pass and no optimizer
\* step, leaves the parameters unchanged and emits no per-batch metric for its batch
\* index; a batch with at least one sampled trajectory performs exactly one
\* optimizer step and emits the three metrics for its batch index.
C3_EmptyPolicyGuard ==
    /\ [][(net' # net \/ opt_steps' # opt_steps \/ (has_grad' /\ ~has_grad)) =>
            (EndsBatch /\ net_policies # <<>>)]_vars
    /\ [][EndsBatch =>
        IF net_policies = <<>>
        THEN /\ net' = net
             /\ opt_steps' = opt_steps
             /\ has_grad' = FALSE
             /\ \A t \in Tags : tb_tracker'[t] = tb_tracker[t] /\ tb_tracker'[t][2] # batch_idx
        ELSE /\ opt_steps' = opt_steps + 1
             /\ has_grad' = TRUE
             /\ \A t \in Tags : tb_tracker'[t] = <<tb_tracker[t][1] + 1, batch_idx>>]_vars

\* A batch whose examples were all skipped has ended, in a run that sampled elsewhere.
C3_Witness ==
    /\ pc = "batches"
    /\ ofs >= 1
    /\ args.samples > 0
    /\ net_policies = <<>>
    /\ skipped_samples >= 1
    /\ opt_steps >= 1
    /\ tb_tracker["advantage"][2] # batch_idx

\* Number of advantage entries recorded before trajectory j of the batch.
RowsBefore(j) == SumSeq([i \in 1..(j - 1) |-> net_policies[i].rows])

\* C4: every token of a recorded trajectory has the advantage (the trajectory's
\* sample reward - the greedy reward of its own example): positive above the greedy
\* reward, negative below, zero when equal.
C4_AdvantagePerToken ==
    pc \in {"example", "sample"} =>
      \A j \in 1..Len(net_policies) :
        LET sample_r == bleus_sample[Len(bleus_sample) - Len(net_policies) + j]
            greedy_r == bleus_argmax[BatchBase + net_policies[j].item + 1]
        IN  \A t \in 1..net_policies[j].rows :
              /\ RowsBefore(j) + t \in DOMAIN net_advantages
              /\ net_advantages[RowsBefore(j) + t] = sample_r - greedy_r
              /\ sample_r > greedy_r => net_advantages[RowsBefore(j) + t] > 0
              /\ sample_r < greedy_r => net_advantages[RowsBefore(j) + t] < 0
              /\ sample_r = greedy_r => net_advantages[RowsBefore(j) + t] = 0

\* Two examples with different greedy rewards were sampled in one batch, with
\* positive, negative and zero advantages among multi-token trajectories.
C4_Witness ==
    /\ pc = "example"
    /\ idx = 2
    /\ bleus_argmax[BatchBase + 1] # bleus_argmax[BatchBase + 2]
    /\ \E i, j \in 1..Len(net_policies) :
          /\ net_policies[i].item = 0 /\ net_policies[j].item = 1
          /\ net_policies[i].rows >= 2
    /\ \E a, b, c \in 1..Len(net_advantages) :
          net_advantages[a] > 0 /\ net_advantages[b] < 0 /\ net_advantages[c] = 0

\* Trajectories recorded in the batch for the example at 0-based position i.
TrajectoriesOf(i) == {j \in 1..Len(net_policies) : net_policies[j].item = i}

\* Examples of the epoch that were not skipped, by their recorded greedy reward.
ScoredInEpoch == {i \in 1..Len(bleus_argmax) : ~IsSkipped(bleus_argmax[i])}

\* C5: between examples, every processed example of the batch is SKIPPED with no
\* trajectory or SCORED with exactly `samples` trajectories; in a 2-example batch
\* with skip enabled and greedy rewards 1.0 and 0.0 only the second kind's tokens
\* and advantages enter the loss; over the epoch total_samples is skipped_samples
\* plus the scored examples and len(bleus_sample) is samples times the scored ones.
C5_TerminalStates ==
    /\ pc = "example" =>
         /\ \A i \in 0..(idx - 1) :
               Cardinality(TrajectoriesOf(i)) =
                 IF IsSkipped(bleus_argmax[BatchBase + i + 1]) THEN 0 ELSE args.samples
         /\ \A j \in 1..Len(net_policies) : net_policies[j].item \in 0..(idx - 1)
    /\ pc # "sample" =>
         /\ total_samples = skipped_samples + Cardinality(ScoredInEpoch)
         /\ Len(bleus_sample) = args.samples * Cardinality(ScoredInEpoch)
    /\ (/\ pc = "example" /\ Len(batch) = 2 /\ idx = 2 /\ ~args.disable_skip
        /\ bleus_argmax[BatchBase + 1] = 100 /\ bleus_argmax[BatchBase + 2] = 0) =>
         /\ Len(net_policies) = args.samples
         /\ \A j \in 1..Len(net_policies) : net_policies[j].item = 1
         /\ Len(net_actions) = SumSeq([j \in 1..Len(net_policies) |-> net_policies[j].rows])
         /\ Len(net_advantages) = Len(net_actions)
         /\ \A t \in 1..Len(net_advantages) : net_advantages[t] >= 0

\* The scenario: A skipped at 1.0, B scored at 0.0, two samples.
C5_Witness ==
    /\ pc = "example" /\ Len(batch) = 2 /\ idx = 2 /\ ~args.disable_skip
    /\ bleus_argmax[BatchBase + 1] = 100 /\ bleus_argmax[BatchBase + 2] = 0
    /\ args.samples = 2
    /\ Len(net_policies) = 2
    /\ skipped_samples >= 1

\* C6: the greedy reward of every processed example is in bleus_argmax, skipped or
\* not: len(bleus_argmax) == total_samples; the list is empty when an epoch starts.
C6_ArgmaxRecorded ==
    /\ Len(bleus_argmax) = total_samples
    /\ (pc = "batches" /\ ofs = 0) => bleus_argmax = <<>>

\* In the second epoch, skipped and sampled examples have both been recorded.
C6_Witness ==
    /\ epoch = 1
    /\ pc = "example"
    /\ skipped_samples >= 1
    /\ total_samples > skipped_samples
    /\ Len(bleus_argmax) >= 2

\* The metrics run_test has returned so far.
TestMetrics == {r[2] : r \in test_runs}

\* The step of lines 180-192.
EndsEpoch == pc = "epoch_end" /\ pc' = "epoch"

\* C7: best_bleu is None until the first evaluation, changes only at the end of
\* an epoch, after that epoch's run_test, never decreases, and after every epoch
\* is the largest test metric of the epochs run so far; the best-score checkpoint
\* of an epoch is written exactly when best_bleu was None or the epoch's metric is
\* strictly greater than it (an equal metric neither updates nor saves).
C7_BestScoreTracker ==
    /\ [](test_runs = {} => best_bleu = None)
    /\ []((pc = "epoch" /\ epoch > 0) =>
            /\ best_bleu \in TestMetrics
            /\ \A m \in TestMetrics : m[1] * best_bleu[2] <= best_bleu[1] * m[2])
    /\ [][best_bleu' # best_bleu => EndsEpoch]_vars
    /\ [][EndsEpoch => epoch' = epoch + 1]_vars
    /\ [][EndsEpoch =>
            LET greater == best_bleu = None
                             \/ best_bleu[1] * bleu_test[2] < bleu_test[1] * best_bleu[2]
            IN  /\ (<<"bleu", epoch>> \in saves') <=> greater
                /\ best_bleu' = IF greater THEN bleu_test ELSE best_bleu
                /\ best_bleu # None =>
                     best_bleu[1] * best_bleu'[2] <= best_bleu'[1] * best_bleu[2]]_vars

\* Four epochs: the first sets the tracker, the second ties (no save), the third
\* improves (save), the fourth scores lower (no update).
C7_Witness ==
    /\ pc = "epoch"
    /\ epoch = 4
    /\ saves \cap {<<"bleu", e>> : e \in 0..3} = {<<"bleu", 0>>, <<"bleu", 2>>}
    /\ bleu_test[1] * best_bleu[2] < best_bleu[1] * bleu_test[2]
    /\ Cardinality(TestMetrics) = 2

\* C8: a periodic checkpoint is written at the end of exactly the epochs whose
\* index is a multiple of 10, epoch 0 included, whether or not a best-score
\* checkpoint is written in the same epoch, and it does not change best_bleu.
C8_PeriodicCheckpoint ==
    /\ [](\A e \in 0..(epoch - 1) : (<<"epoch", e>> \in saves) <=> (e % 10 = 0))
    /\ [][EndsEpoch =>
            /\ (<<"epoch", epoch>> \in saves') <=> (epoch % 10 = 0)
            /\ saves' \ saves \subseteq {<<"epoch", epoch>>, <<"bleu", epoch>>}
            /\ (<<"bleu", epoch>> \notin saves') => best_bleu' = best_bleu]_vars

\* Epoch 10 wrote a periodic checkpoint and no best-score one; epoch 0 wrote both.
C8_Witness ==
    /\ epoch >= 11
    /\ <<"epoch", 10>> \in saves
    /\ <<"bleu", 10>> \notin saves
    /\ <<"epoch", 0>> \in saves
    /\ <<"bleu", 0>> \in saves
    /\ Cardinality({f \in saves : f[1] = "epoch"}) = 2

\* A step taken inside run_test, its entry included.
InRunTest == pc = "test" \/ pc' = "test"

\* The mean of the greedy rewards of the test pairs under parameters `params`.
GreedyMean(params) ==
    << SumSeq([i \in 1..Len(test_data) |->
                 calc_bleu_many(decode_chain_argmax(params, test_data[i]),
                                StripBegin(Refs(test_data[i])))]),
       Len(test_data) >>

\* C9: run_test changes neither the parameters, the gradients, the optimizer step
\* count nor any training accumulator; it is entered once per epoch, when all
\* batches are done; it returns the mean of the greedy rewards of the test pairs;
\* and two runs under the same parameters return the same metric.
C9_RunTestPure ==
    /\ [][InRunTest =>
            UNCHANGED <<net, has_grad, opt_steps, tb_tracker, train_data, epoch,
                        batch_idx, best_bleu, dial_shown, total_samples,
                        skipped_samples, bleus_argmax, bleus_sample, net_policies,
                        net_actions, net_advantages, saves, log>>]_vars
    /\ [][(pc' = "test" /\ pc # "test") =>
            pc = "batches" /\ ofs * BATCH_SIZE >= Len(train_data)]_vars
    /\ [][(pc = "test" /\ pc' # "test") => pc' = "epoch_end"]_vars
    /\ [][EndsEpoch => epoch' = epoch + 1]_vars
    /\ [](pc = "epoch_end" => bleu_test = GreedyMean(net))
    /\ [](\A a, b \in test_runs : a[1] = b[1] => a[2][1] * b[2][2] = b[2][1] * a[2][2])

\* run_test has run in three epochs under two parameter values: one value was
\* evaluated twice.
C9_Witness ==
    /\ pc = "epoch"
    /\ epoch = 3
    /\ Cardinality(test_runs) = 2
    /\ opt_steps >= 1

\* The example being started is not skipped and no example before it was sampled:
\* in its batch (InBatch) or in its epoch (InEpoch).
FirstSampledInBatch ==
    /\ StartsExample
    /\ ~IsSkipped(argmax_bleu')
    /\ \A i \in 1..idx : IsSkipped(bleus_argmax[BatchBase + i])

FirstSampledInEpoch ==
    /\ StartsExample
    /\ ~IsSkipped(argmax_bleu')
    /\ \A i \in 1..Len(bleus_argmax) : IsSkipped(bleus_argmax[i])

LogsDialogue ==
    /\ log'["Input"] = log["Input"] + 1
    /\ log'["Refer"] = log["Refer"] + 1
    /\ log'["Argmax"] = log["Argmax"] + 1

\* C10 as stated: the first sampled example of every batch has its dialogue logged.
C10_LoggedOncePerBatch ==
    [][(args.samples > 0 /\ FirstSampledInBatch) => LogsDialogue]_vars

\* C10, amended: dial_shown is reset once per epoch; the first sampled example of
\* the epoch has its input, references, greedy output and every sample logged, and
\* no other example of the epoch logs anything.
C10_LoggedOncePerEpoch ==
    /\ []((pc = "batches" /\ ofs = 0) => ~dial_shown)
    /\ [](dial_shown <=>
            \E i \in 1..(Len(bleus_argmax) - (IF pc = "sample" THEN 1 ELSE 0)) :
                ~IsSkipped(bleus_argmax[i]))
    /\ [][dial_shown' # dial_shown => (pc = "epoch" \/ (pc = "sample" /\ pc' = "example"))]_vars
    /\ [][IF FirstSampledInEpoch THEN LogsDialogue
          ELSE /\ log'["Input"] = log["Input"]
               /\ log'["Refer"] = log["Refer"]
               /\ log'["Argmax"] = log["Argmax"]]_vars
    /\ [][log'["Sample"] =
            IF pc = "sample" /\ Len(bleus_sample') > Len(bleus_sample)
               /\ \A i \in 1..(Len(bleus_argmax) - 1) : IsSkipped(bleus_argmax[i])
            THEN log["Sample"] + 1 ELSE log["Sample"]]_vars

\* The second epoch sampled examples in both of its batches and logged one dialogue.
C10_Witness ==
    /\ epoch = 1
    /\ pc = "batches"
    /\ ofs = 2
    /\ opt_steps >= 3
    /\ args.samples = 2
    /\ log["Input"] = 2
    /\ log["Sample"] = 4
    /\ Len(bleus_sample) >= 4

====
